---- MODULE Spec2Model ----
(***************************************************************************)
(* Model of src/app.py: the 340B compliance risk pipeline.                 *)
(*                                                                         *)
(* Texts are TLA+ strings and are computed character by character the way  *)
(* the Python code computes them.  TLA+ strings are ASCII: the en dash of  *)
(* the threshold labels ('0-5', '6-15', '70-85', '40-60') and the bullet   *)
(* of the report lines are written "-" and "*", and the backquote of the   *)
(* markdown fence is written "~" (three of them make the fence).           *)
(***************************************************************************)
EXTENDS Integers, Sequences, FiniteSets, TLC

VARIABLES
    \* ComplianceState (src/app.py:43-50)
    customer_metrics, knowledge_base, risk_evaluations, customer_reports,
    regulatory_updates, final_report,
    \* position of the compiled workflow (src/app.py:382-397)
    pc,
    \* history: nodes run so far, collaborator calls that raised, the queries
    \* handed to duckduckgo_search, and the report_lines list of generate_report
    trace, failed, search_calls, report_lines,
    \* a direct call of a utility function: its arguments and what it returned
    metric_name, value, csv_lines, csv_content, returned

state == <<customer_metrics, knowledge_base, risk_evaluations, customer_reports,
           regulatory_updates, final_report>>
history == <<trace, failed, search_calls, report_lines>>
call == <<metric_name, value, csv_lines, csv_content, returned>>
vars == <<state, pc, history, call>>

----------------------------------------------------------------------------
(* Python str operations used by the code *)

Char(s, i) == SubSeq(s, i, i)

(* An argument that is an expression is bound to its value once, by        *)
(* v \in {argument}, where the operator reads it many times.               *)

\* the smallest number of a set of numbers, 0 for the empty set
first_of(hits) == IF hits = {} THEN 0 ELSE CHOOSE j \in hits : \A k \in hits : j <= k

\* str.find from position i (1-based): the first place at or after i where
\* sub occurs, 0 when there is none
find(s, sub, i) ==
    CHOOSE r \in { first_of({j \in i..(Len(v) - Len(w) + 1) :
                                SubSeq(v, j, j + Len(w) - 1) = w}) :
                    v \in {s}, w \in {sub} } : TRUE

\* sub in s
contains(s, sub) == find(s, sub, 1) # 0

startswith(s, prefix) ==
    Len(prefix) <= Len(s) /\ SubSeq(s, 1, Len(prefix)) = prefix

RECURSIVE split_from(_, _, _)
\* the pieces of s from position start on
split_from(s, sep, start) ==
    LET i == find(s, sep, start) IN
    IF i = 0 THEN <<SubSeq(s, start, Len(s))>>
    ELSE <<SubSeq(s, start, i - 1)>> \o split_from(s, sep, i + Len(sep))

\* s.split(sep), sep not empty
split(s, sep) == CHOOSE r \in {split_from(v, sep, 1) : v \in {s}} : TRUE

RECURSIVE join(_, _)
\* sep.join(parts)
join(sep, parts) ==
    IF Len(parts) = 0 THEN ""
    ELSE IF Len(parts) = 1 THEN parts[1]
    ELSE parts[1] \o sep \o join(sep, Tail(parts))

\* the ASCII characters str.strip() takes off: space, tab, line feed, vertical
\* tab (0x0b), form feed, carriage return, and the separators 0x1c to 0x1f
Whitespace ==
    {" ", "\t", "\n", "", "\f", "\r", "", "", "", ""}

\* the characters int() skips around its literal: the separators are not among them
IntWhitespace == {" ", "\t", "\n", "", "\f", "\r"}

\* s.strip(): from the first to the last character that is no whitespace
strip_of(s, blanks) ==
    CHOOSE r \in
        { IF kept = {} THEN ""
          ELSE SubSeq(v, CHOOSE i \in kept : \A j \in kept : i <= j,
                         CHOOSE i \in kept : \A j \in kept : j <= i) :
            <<v, kept>> \in
                { <<u, {i \in 1..Len(u) : Char(u, i) \notin blanks}>> :
                    u \in {s} } } : TRUE

strip(s) == strip_of(s, Whitespace)

UpperAlpha == "ABCDEFGHIJKLMNOPQRSTUVWXYZ"
LowerAlpha == "abcdefghijklmnopqrstuvwxyz"

UpperLetters == {Char(UpperAlpha, i) : i \in 1..Len(UpperAlpha)}
LowerLetters == {Char(LowerAlpha, i) : i \in 1..Len(LowerAlpha)}

\* the letter of the other case
ToLower == [c \in UpperLetters |-> Char(LowerAlpha, find(UpperAlpha, c, 1))]
ToUpper == [c \in LowerLetters |-> Char(UpperAlpha, find(LowerAlpha, c, 1))]

lower_char(c) == IF c \in UpperLetters THEN ToLower[c] ELSE c

upper_char(c) == IF c \in LowerLetters THEN ToUpper[c] ELSE c

is_cased(c) == c \in UpperLetters \/ c \in LowerLetters

RECURSIVE lower_from(_, _)
lower_from(s, i) ==
    IF i > Len(s) THEN ""
    ELSE lower_char(Char(s, i)) \o lower_from(s, i + 1)

\* s.lower()
lower(s) == CHOOSE r \in {lower_from(v, 1) : v \in {s}} : TRUE

RECURSIVE title_from(_, _)
\* a letter after a letter is lower-cased, any other letter upper-cased
title_from(s, i) ==
    IF i > Len(s) THEN ""
    ELSE (IF i > 1 /\ is_cased(Char(s, i - 1))
          THEN lower_char(Char(s, i)) ELSE upper_char(Char(s, i)))
            \o title_from(s, i + 1)

\* s.title()
title(s) == CHOOSE r \in {title_from(v, 1) : v \in {s}} : TRUE

\* s.replace(old, new), old not empty: the pieces between the occurrences
\* of old, put together with new
replace(s, old, new) == join(new, split(s, old))

RECURSIVE repeat(_, _)
\* s * n
repeat(s, n) == IF n <= 0 THEN "" ELSE s \o repeat(s, n - 1)

\* s[:n]
prefix(s, n) == SubSeq(s, 1, IF Len(s) < n THEN Len(s) ELSE n)

Digits == "0123456789"

is_digit(c) == contains(Digits, c)

RECURSIVE digits_value(_, _)
\* the number the first n characters of a run of digits and underscores denote
digits_value(s, n) ==
    IF n = 0 THEN 0
    ELSE IF Char(s, n) = "_" THEN digits_value(s, n - 1)
    ELSE 10 * digits_value(s, n - 1) + (find(Digits, Char(s, n), 1) - 1)

\* the unsigned part of an int literal: digits, single underscores between them
is_digits(s) ==
    /\ Len(s) > 0
    /\ is_digit(Char(s, 1)) /\ is_digit(Char(s, Len(s)))
    /\ \A i \in 1..Len(s) : is_digit(Char(s, i)) \/ Char(s, i) = "_"
    /\ ~contains(s, "__")

\* the literal of int(s) without its sign
unsigned(s) ==
    LET t == strip_of(s, IntWhitespace) IN
    IF Len(t) > 0 /\ Char(t, 1) \in {"+", "-"} THEN SubSeq(t, 2, Len(t)) ELSE t

\* int(s) raises ValueError
int_raises(s) == ~is_digits(unsigned(s))

\* int(s), when it does not raise
int(s) ==
    IF startswith(strip_of(s, IntWhitespace), "-")
    THEN 0 - digits_value(unsigned(s), Len(unsigned(s)))
    ELSE digits_value(unsigned(s), Len(unsigned(s)))

RECURSIVE nat_str(_)
nat_str(n) ==
    IF n < 10 THEN Char(Digits, n + 1)
    ELSE nat_str(n \div 10) \o Char(Digits, (n % 10) + 1)

\* str(n) of an int
int_str(n) == IF n < 0 THEN "-" \o nat_str(0 - n) ELSE nat_str(n)

\* str(float(n)) of an int below 10^16
float_str(n) == int_str(n) \o ".0"

----------------------------------------------------------------------------
(* dict: the sequence of its <<key, value>> items in insertion order *)

keys(d) == [i \in 1..Len(d) |-> d[i][1]]

has_key(d, k) == \E i \in 1..Len(d) : d[i][1] = k

\* d[k], k a key of d
get(d, k) == d[CHOOSE i \in 1..Len(d) : d[i][1] = k][2]

\* d[k] = v: a key already there keeps its place
set_item(d, k, v) ==
    IF has_key(d, k)
    THEN [i \in 1..Len(d) |-> IF d[i][1] = k THEN <<k, v>> ELSE d[i]]
    ELSE Append(d, <<k, v>>)

----------------------------------------------------------------------------
(* evaluate_risk_level *)

\* a threshold is <<n>>, or <<>> for float('inf')
Num(n) == <<n>>
Inf == <<>>

\* value <= threshold
le(v, threshold) == threshold = Inf \/ v <= threshold[1]

\* the exception of thresholds[metric_name] for a name that is no key
KeyError == <<"KeyError">>

thresholds ==
    << <<"negative_accum_count",
         << <<Num(5), "Low Risk", "0-5">>,
            <<Num(15), "Medium Risk", "6-15">>,
            <<Inf, "High Risk", ">15">> >> >>,
       <<"match_rate_percent",
         << <<Num(85), "High Risk", "<70">>,
            <<Num(70), "Medium Risk", "70-85">>,
            <<Inf, "Low Risk", ">85">> >> >>,
       <<"referral_capture_rate_percent",
         << <<Num(40), "High Risk", "<40">>,
            <<Num(60), "Medium Risk", "40-60">>,
            <<Inf, "Low Risk", ">60">> >> >> >>

RECURSIVE first_match(_, _)
\* the loop of lines 173-177 over the rows of one metric
first_match(rows, v) ==
    IF Len(rows) = 0 THEN <<"Unknown", "Unknown">>
    ELSE IF le(v, rows[1][1]) THEN <<rows[1][2], rows[1][3]>>
    ELSE first_match(Tail(rows), v)

\* the same function without the match_rate_percent branch of lines 164-170
evaluate_risk_level_table_only(name, v) ==
    IF ~has_key(thresholds, name) THEN KeyError
    ELSE first_match(get(thresholds, name), v)

\* <<risk_level, threshold_range>>, or KeyError (thresholds[metric_name])
evaluate_risk_level(name, v) ==
    IF name = "match_rate_percent"
    THEN IF v < 70 THEN <<"High Risk", "<70">>
         ELSE IF v <= 85 THEN <<"Medium Risk", "70-85">>
         ELSE <<"Low Risk", ">85">>
    ELSE IF ~has_key(thresholds, name) THEN KeyError
    ELSE first_match(get(thresholds, name), v)

----------------------------------------------------------------------------
(* parse_csv_metrics *)

Fence == "~~~"
CsvFence == "~~~csv"

\* lines 115-118: the text of the first fenced block, or the whole text
unfenced(content) ==
    IF contains(content, CsvFence)
    THEN split(split(content, CsvFence)[2], Fence)[1]
    ELSE IF contains(content, Fence)
    THEN split(split(content, Fence)[2], Fence)[1]
    ELSE content

\* the dict literal of lines 133-137
metric_record(values) ==
    << <<"negative_accum_count", int(strip(values[2]))>>,
       <<"match_rate_percent", int(strip(values[3]))>>,
       <<"referral_capture_rate_percent", int(strip(values[4]))>> >>

\* one pass of the loop body of lines 125-139 on the dict built so far
parse_line(metrics, raw) ==
    LET line == strip(raw)
        values == split(line, ",")
    IN IF line = "" \/ startswith(line, "customer_id") THEN metrics
       ELSE IF Len(values) < 4 THEN metrics
       ELSE IF \E k \in 2..4 : int_raises(strip(values[k])) THEN metrics
       ELSE set_item(metrics, strip(values[1]), metric_record(values))

RECURSIVE parse_lines(_, _)
parse_lines(metrics, lines) ==
    IF Len(lines) = 0 THEN metrics
    ELSE parse_lines(parse_line(metrics, lines[1]), Tail(lines))

parse_csv_metrics(content) ==
    parse_lines(<<>>, split(strip(unfenced(content)), "\n"))

----------------------------------------------------------------------------
(* The state handed to app.invoke, and a utility call that is not under way *)

initial_state ==
    /\ customer_metrics = <<>>
    /\ knowledge_base = ""
    /\ risk_evaluations = <<>>
    /\ customer_reports = <<>>
    /\ regulatory_updates = ""
    /\ final_report = ""

no_history ==
    /\ trace = <<>>
    /\ failed = {}
    /\ search_calls = <<>>
    /\ report_lines = <<>>

no_call ==
    /\ metric_name = ""
    /\ value = 0
    /\ csv_lines = <<>>
    /\ csv_content = ""
    /\ returned = <<>>

----------------------------------------------------------------------------
(* duckduckgo_search *)

regulatory_suggestions ==
    << <<"340B program compliance",
         "Recent regulatory guidance emphasizes stronger controls on accumulation tracking and diversion prevention.">>,
       <<"negative accumulation",
         "HRSA guidance recommends monitoring negative accumulation patterns as early indicators of inventory management issues.">>,
       <<"match rate",
         "Patient eligibility documentation must be maintained with higher accuracy rates to ensure program integrity.">>,
       <<"referral capture",
         "Covered entities should enhance referral capture processes to maximize program utilization and compliance.">> >>

RECURSIVE suggestion_for(_, _)
\* the loop of lines 91-95 over the items of regulatory_suggestions
suggestion_for(items, query) ==
    IF Len(items) = 0
    THEN "Regulatory context: Continuous monitoring of compliance metrics is essential for 340B program integrity."
    ELSE IF contains(lower(query), lower(items[1][1])) THEN items[1][2]
    ELSE suggestion_for(Tail(items), query)

\* the text returned when requests.get answered (lines 73-81)
scraped(query, response) ==
    IF response.status_code = 200
    THEN IF contains(response.text, "340B")
            \/ contains(lower(response.text), "compliance")
         THEN "DuckDuckGo results for '" \o query
                \o "': Found relevant 340B compliance information online.\n"
                \o "Key topics include: program management, diversion prevention, patient eligibility, and regulatory compliance."
         ELSE "DuckDuckGo search for '" \o query
                \o "' completed. Regulatory updates and guidance available online."
    ELSE "Search results for '" \o query \o "' retrieved from regulatory databases."

\* what the two collaborators did on one call: search.run returned o.results
\* or raised, and then requests.get returned o.response or raised
duckduckgo_search(query, o) ==
    IF o.run = "ok" THEN o.results
    ELSE IF o.get = "ok" THEN scraped(query, o.response)
    ELSE suggestion_for(regulatory_suggestions, query)

----------------------------------------------------------------------------
(* evaluate_risks *)

risk_descriptions ==
    << <<"negative_accum_count",
         "Ordering drugs while accumulations are negative may indicate inventory control weaknesses.">>,
       <<"match_rate_percent",
         "Low match rates may indicate incomplete documentation or eligibility classification issues.">>,
       <<"referral_capture_rate_percent",
         "Low referral capture may indicate operational inefficiencies or missed program opportunities.">> >>

\* the RiskEvaluation of lines 247-256, evaluate_risk_level not raising
RiskEvaluation(customer_id, name, v) ==
    LET level == evaluate_risk_level(name, v) IN
    [ metric_name |-> title(replace(name, "_", " ")),
      customer_id |-> customer_id,
      value |-> v,
      risk_level |-> level[1],
      threshold_range |-> level[2],
      explanation |-> IF has_key(risk_descriptions, name)
                      THEN get(risk_descriptions, name) ELSE "" ]

RECURSIVE customer_evaluations(_, _)
\* the inner loop of lines 246-257 for one customer
customer_evaluations(customer_id, metrics_data) ==
    IF Len(metrics_data) = 0 THEN <<>>
    ELSE <<RiskEvaluation(customer_id, metrics_data[1][1], metrics_data[1][2])>>
            \o customer_evaluations(customer_id, Tail(metrics_data))

RECURSIVE all_evaluations(_)
\* the outer loop of lines 245-257
all_evaluations(metrics) ==
    IF Len(metrics) = 0 THEN <<>>
    ELSE customer_evaluations(metrics[1][1], metrics[1][2])
            \o all_evaluations(Tail(metrics))

\* some call of evaluate_risk_level in the loops raises
evaluation_raises(metrics) ==
    \E i \in 1..Len(metrics) : \E k \in 1..Len(metrics[i][2]) :
        evaluate_risk_level(metrics[i][2][k][1], metrics[i][2][k][2]) = KeyError

RECURSIVE filter_customer(_, _)
\* [e for e in risk_evaluations if e.customer_id == customer_id]
filter_customer(evals, customer_id) ==
    IF Len(evals) = 0 THEN <<>>
    ELSE IF evals[1].customer_id = customer_id
    THEN <<evals[1]>> \o filter_customer(Tail(evals), customer_id)
    ELSE filter_customer(Tail(evals), customer_id)

\* sum(1 for e in customer_evals if e.risk_level == level)
count_level(evals, level) ==
    Cardinality({k \in 1..Len(evals) : evals[k].risk_level = level})

\* the report built without the filter on customer_id
CustomerRiskReport_unfiltered(customer_id, evals) ==
    [ customer_id |-> customer_id,
      risks |-> evals,
      high_risk_count |-> count_level(evals, "High Risk"),
      medium_risk_count |-> count_level(evals, "Medium Risk"),
      low_risk_count |-> count_level(evals, "Low Risk") ]

\* the CustomerRiskReport of lines 265-276 for one customer
CustomerRiskReport(customer_id, evals) ==
    CHOOSE report \in
        { [ customer_id |-> customer_id,
            risks |-> customer_evals,
            high_risk_count |-> count_level(customer_evals, "High Risk"),
            medium_risk_count |-> count_level(customer_evals, "Medium Risk"),
            low_risk_count |-> count_level(customer_evals, "Low Risk") ] :
          customer_evals \in {filter_customer(evals, customer_id)} } : TRUE

\* the loop of lines 264-277
all_reports(metrics, evals) ==
    [i \in 1..Len(metrics) |-> CustomerRiskReport(metrics[i][1], evals)]

----------------------------------------------------------------------------
(* generate_report *)

BannerWidth == 80
AppendixLimit == 1000

Banner == repeat("=", BannerWidth)
Rule == repeat("-", BannerWidth)

\* lines 360-364 for one evaluation
risk_lines(risk) ==
    << "\n  * " \o risk.metric_name,
       "    Value: " \o float_str(risk.value),
       "    Risk Level: " \o risk.risk_level,
       "    Threshold: " \o risk.threshold_range,
       "    Description: " \o risk.explanation >>

RECURSIVE all_risk_lines(_)
all_risk_lines(risks) ==
    IF Len(risks) = 0 THEN <<>>
    ELSE risk_lines(risks[1]) \o all_risk_lines(Tail(risks))

\* lines 354-364 for one customer
customer_lines(r) ==
    << "\nCustomer: " \o r.customer_id,
       "  High Risk Issues: " \o int_str(r.high_risk_count),
       "  Medium Risk Issues: " \o int_str(r.medium_risk_count),
       "  Low Risk Issues: " \o int_str(r.low_risk_count) >>
        \o all_risk_lines(r.risks)

RECURSIVE all_customer_lines(_)
all_customer_lines(reports) ==
    IF Len(reports) = 0 THEN <<>>
    ELSE customer_lines(reports[1]) \o all_customer_lines(Tail(reports))

\* the report with its appendix cut where the prompt of line 329 cuts it
build_report_lines_prompt_cut(summary, reports, updates, timestamp) ==
    << Banner,
       "340B PROGRAM COMPLIANCE RISK DETECTION REPORT",
       Banner,
       "",
       "EXECUTIVE SUMMARY",
       Rule,
       summary,
       "",
       "CUSTOMER RISK ANALYSIS",
       Rule >>
    \o all_customer_lines(reports)
    \o << "",
          Banner,
          "REGULATORY CONTEXT",
          Banner,
          prefix(updates, AppendixLimit \div 2),
          "",
          "Report Generated: " \o timestamp,
          Banner >>

\* the list report_lines of lines 340-373
build_report_lines(summary, reports, updates, timestamp) ==
    << Banner,
       "340B PROGRAM COMPLIANCE RISK DETECTION REPORT",
       Banner,
       "",
       "EXECUTIVE SUMMARY",
       Rule,
       summary,
       "",
       "CUSTOMER RISK ANALYSIS",
       Rule >>
    \o all_customer_lines(reports)
    \o << "",
          Banner,
          "REGULATORY CONTEXT",
          Banner,
          prefix(updates, AppendixLimit),
          "",
          "Report Generated: " \o timestamp,
          Banner >>

----------------------------------------------------------------------------
(* The compiled workflow *)

START == "__start__"
END == "__end__"

\* workflow.add_edge, lines 390-395
edges ==
    { <<START, "retrieve_metrics">>,
      <<"retrieve_metrics", "retrieve_kb">>,
      <<"retrieve_kb", "evaluate_risks">>,
      <<"evaluate_risks", "search_regulations">>,
      <<"search_regulations", "generate_report">>,
      <<"generate_report", END>> }

\* the edges with evaluate_risks left out of the chain
next_node_skipping(node) ==
    IF node = "retrieve_kb" THEN "search_regulations"
    ELSE (CHOOSE e \in edges : e[1] = node)[2]

\* the node that runs after node
next_node(node) == (CHOOSE e \in edges : e[1] = node)[2]

\* the workflow stops where a node raised
RAISED == "raised"

\* node has run and returned: the workflow moves along its edge
returns(node) ==
    /\ pc' = next_node(node)
    /\ trace' = Append(trace, node)

\* node has run and raised
raises(node) ==
    /\ pc' = RAISED
    /\ trace' = Append(trace, node)

(* what the collaborators may answer *)

MetricReplies ==
    { "",
      "I could not find any customer metrics.",
      "C1,3,90,55",
      "C1,3,90,55\nC3,7,x,5\nC2,16,85,61",
      "Here are the metrics:\n" \o CsvFence
        \o "\ncustomer_id,negative_accum_count,match_rate_percent,referral_capture_rate_percent"
        \o "\nC1,3,90,55\nC2,20,60,30\nC3,6,70,40\n" \o Fence }

KnowledgeReplies ==
    { "", "Negative accumulation above 15 orders is a high risk indicator." }

ShortResults == "HRSA publishes updated 340B audit guidance for covered entities."
LongResults == repeat("340B compliance update: HRSA audit findings on diversion. ", 8)

NoResponse == [status_code |-> 0, text |-> ""]

SearchOutcomes ==
    { [run |-> "ok", results |-> ShortResults, get |-> "none", response |-> NoResponse],
      [run |-> "ok", results |-> LongResults, get |-> "none", response |-> NoResponse],
      [run |-> "raise", results |-> "", get |-> "ok",
            response |-> [status_code |-> 200, text |-> "340B Drug Pricing Program"]],
      [run |-> "raise", results |-> "", get |-> "ok",
            response |-> [status_code |-> 200, text |-> "HRSA Compliance Center"]],
      [run |-> "raise", results |-> "", get |-> "ok",
            response |-> [status_code |-> 200, text |-> "No results found"]],
      [run |-> "raise", results |-> "", get |-> "ok",
            response |-> [status_code |-> 503, text |-> ""]],
      [run |-> "raise", results |-> "", get |-> "raise", response |-> NoResponse] }

SummaryReplies ==
    { "Two customers show high risk on negative accumulation and match rate." }

Errors == { "Could not connect to the endpoint URL" }

Timestamps == { "Fri Oct 30 20:17:00 UTC 2026", "" }

Init ==
    /\ initial_state /\ no_history /\ no_call
    /\ pc = next_node(START)

\* lines 180-206
retrieve_customer_metrics ==
    /\ pc = "retrieve_metrics"
    /\ \E outcome \in {"ok", "raise"} : \E csv \in MetricReplies :
        IF outcome = "ok"
        THEN /\ customer_metrics' = parse_csv_metrics(csv)
             /\ failed' = failed
        ELSE /\ customer_metrics' = <<>>
             /\ failed' = failed \cup {<<"metric source", 0>>}
    /\ returns("retrieve_metrics")
    /\ UNCHANGED <<knowledge_base, risk_evaluations, customer_reports,
                   regulatory_updates, final_report>>
    /\ UNCHANGED <<search_calls, report_lines, call>>

\* the same node with an except branch that also resets customer_metrics
retrieve_knowledge_base_resetting ==
    /\ pc = "retrieve_kb"
    /\ \E outcome \in {"ok", "raise"} : \E kb_content \in KnowledgeReplies :
        IF outcome = "ok"
        THEN /\ knowledge_base' = kb_content
             /\ customer_metrics' = customer_metrics
             /\ failed' = failed
        ELSE /\ knowledge_base' = ""
             /\ customer_metrics' = <<>>
             /\ failed' = failed \cup {<<"knowledge base", 0>>}
    /\ returns("retrieve_kb")
    /\ UNCHANGED <<risk_evaluations, customer_reports,
                   regulatory_updates, final_report>>
    /\ UNCHANGED <<search_calls, report_lines, call>>

\* lines 208-230
retrieve_knowledge_base ==
    /\ pc = "retrieve_kb"
    /\ \E outcome \in {"ok", "raise"} : \E kb_content \in KnowledgeReplies :
        IF outcome = "ok"
        THEN /\ knowledge_base' = kb_content
             /\ failed' = failed
        ELSE /\ knowledge_base' = ""
             /\ failed' = failed \cup {<<"knowledge base", 0>>}
    /\ returns("retrieve_kb")
    /\ UNCHANGED <<customer_metrics, risk_evaluations, customer_reports,
                   regulatory_updates, final_report>>
    /\ UNCHANGED <<search_calls, report_lines, call>>

\* lines 232-280
evaluate_risks ==
    /\ pc = "evaluate_risks"
    /\ IF evaluation_raises(customer_metrics)
       THEN /\ raises("evaluate_risks")
            /\ UNCHANGED <<risk_evaluations, customer_reports>>
       ELSE \E evals \in {all_evaluations(customer_metrics)} :
            /\ risk_evaluations' = evals
            /\ customer_reports' = all_reports(customer_metrics, evals)
            /\ returns("evaluate_risks")
    /\ UNCHANGED <<customer_metrics, knowledge_base, regulatory_updates, final_report>>
    /\ UNCHANGED <<failed, search_calls, report_lines, call>>

search_queries ==
    << "340B program compliance risks 2025 2026",
       "healthcare diversion compliance negative accumulation",
       "patient eligibility matching audit requirements" >>

\* the entry of line 296
entry(query, results) == "Query: " \o query \o "\n" \o results \o "\n"

\* the collaborator calls of one duckduckgo_search that raised
search_failures(i, o) ==
    (IF o.run = "raise" THEN {<<"search.run", i>>} ELSE {})
        \cup (IF o.get = "raise" THEN {<<"requests.get", i>>} ELSE {})

\* the loop leaving at the first query whose search.run raised
all_results_until_failure(outcomes) ==
    LET n == Len(search_queries)
        bad == {i \in 1..n : outcomes[i].run = "raise"}
        last == IF bad = {} THEN n ELSE (CHOOSE i \in bad : \A j \in bad : i <= j) - 1
    IN [i \in 1..last |->
        entry(search_queries[i], duckduckgo_search(search_queries[i], outcomes[i]))]

\* the list all_results of lines 292-300, the calls having gone as outcomes say
all_results(outcomes) ==
    [i \in 1..Len(search_queries) |->
        entry(search_queries[i], duckduckgo_search(search_queries[i], outcomes[i]))]

\* lines 282-304
search_regulatory_updates ==
    /\ pc = "search_regulations"
    /\ \E outcomes \in [1..Len(search_queries) -> SearchOutcomes] :
        /\ failed' = failed \cup
                UNION {search_failures(i, outcomes[i]) : i \in 1..Len(search_queries)}
        /\ regulatory_updates' = join("\n", all_results(outcomes))
        /\ search_calls' = [i \in 1..Len(all_results(outcomes)) |-> search_queries[i]]
    /\ returns("search_regulations")
    /\ UNCHANGED <<customer_metrics, knowledge_base, risk_evaluations,
                   customer_reports, final_report>>
    /\ UNCHANGED <<report_lines, call>>

\* line 337
error_summary(e) == "Error generating summary: " \o e

\* the same node without the try of lines 333-337 around model.invoke
generate_report_unguarded ==
    /\ pc = "generate_report"
    /\ \E outcome \in {"ok", "raise"} : \E reply \in SummaryReplies :
       \E timestamp \in Timestamps :
        IF outcome = "ok"
        THEN /\ report_lines' = build_report_lines(
                    reply, customer_reports, regulatory_updates, timestamp)
             /\ final_report' = join("\n", report_lines')
             /\ failed' = failed
             /\ returns("generate_report")
        ELSE /\ UNCHANGED <<report_lines, final_report>>
             /\ failed' = failed \cup {<<"model.invoke", 0>>}
             /\ raises("generate_report")
    /\ UNCHANGED <<customer_metrics, knowledge_base, risk_evaluations,
                   customer_reports, regulatory_updates>>
    /\ UNCHANGED <<search_calls, call>>

\* lines 306-379
generate_report ==
    /\ pc = "generate_report"
    /\ \E outcome \in {"ok", "raise"} : \E reply \in SummaryReplies :
       \E e \in Errors : \E timestamp \in Timestamps :
        LET summary == IF outcome = "ok" THEN reply ELSE error_summary(e) IN
        /\ report_lines' = build_report_lines(
                summary, customer_reports, regulatory_updates, timestamp)
        /\ final_report' = join("\n", report_lines')
        /\ failed' = IF outcome = "ok" THEN failed ELSE failed \cup {<<"model.invoke", 0>>}
    /\ returns("generate_report")
    /\ UNCHANGED <<customer_metrics, knowledge_base, risk_evaluations,
                   customer_reports, regulatory_updates>>
    /\ UNCHANGED <<search_calls, call>>

Next ==
    \/ retrieve_customer_metrics
    \/ retrieve_knowledge_base
    \/ evaluate_risks
    \/ search_regulatory_updates
    \/ generate_report

Spec == Init /\ [][Next]_vars

\* app.invoke runs the nodes one after the other until END: each call of a
\* node returns or raises, and the next node is then run
LiveSpec == Init /\ [][Next]_vars /\ WF_vars(Next)

----------------------------------------------------------------------------
(* Properties of the workflow *)

StageOrder ==
    << "retrieve_metrics", "retrieve_kb", "evaluate_risks",
       "search_regulations", "generate_report" >>

Ran(node) == \E k \in 1..Len(trace) : trace[k] = node

Failed(what, i) == <<what, i>> \in failed

Finished == pc = END

endswith(s, suffix) ==
    Len(suffix) <= Len(s) /\ SubSeq(s, Len(s) - Len(suffix) + 1, Len(s)) = suffix

\* the sections of the report that generate_report built
SummarySection == report_lines[7]
AppendixSection == report_lines[Len(report_lines) - 3]
FooterLine == report_lines[Len(report_lines) - 1]

\* the end of the report text from the appendix heading on, the appendix
\* section being the text a
ClosingBlock(a) ==
    "\n" \o Banner \o "\nREGULATORY CONTEXT\n" \o Banner \o "\n" \o a
        \o "\n\n" \o FooterLine \o "\n" \o Banner

\* C4: whatever the collaborators do (each call returns or raises, the
\* metric source returns any of its texts), the run reaches the terminal
\* state after generate_report with a non-empty final_report: no failure
\* leaves the node that made the call.
C4_AlwaysReachesReport == <>(Finished /\ final_report # "")

\* every collaborator call of the run raised, and the report is there
C4_Witness ==
    /\ Finished /\ final_report # ""
    /\ Failed("metric source", 0) /\ Failed("knowledge base", 0)
    /\ Failed("model.invoke", 0)
    /\ \A i \in 1..Len(search_queries) :
            Failed("search.run", i) /\ Failed("requests.get", i)

\* C5 (as claimed): when the knowledge-base call and every regulatory search
\* call fail, the report is non-empty, its regulatory-context appendix is
\* the empty string and its executive summary holds the text that documents
\* the failure of the narrative generation.
C5_DegradedReportAsClaimed ==
    ( /\ Finished
      /\ Failed("knowledge base", 0)
      /\ \A i \in 1..Len(search_queries) :
            Failed("search.run", i) /\ Failed("requests.get", i) )
    => /\ final_report # ""
       /\ AppendixSection = ""
       /\ contains(SummarySection, "Error generating summary")

\* C5 (amended): when the knowledge-base call and the search call of every
\* query fail, the report is non-empty; its appendix is not empty: it is the
\* first 1000 characters of the regulatory text, which starts with the
\* labelled entry of the first query, and the report text ends with it and
\* the footer; the executive summary is 'Error generating summary: ...' when
\* the summarizer call raised and the summarizer's narrative when it did not.
C5_DegradedReport ==
    ( /\ Finished
      /\ Failed("knowledge base", 0)
      /\ \A i \in 1..Len(search_queries) : Failed("search.run", i) )
    => /\ final_report # ""
       /\ knowledge_base = ""
       /\ AppendixSection # ""
       /\ AppendixSection = prefix(regulatory_updates, AppendixLimit)
       /\ startswith(AppendixSection, "Query: " \o search_queries[1] \o "\n")
       /\ endswith(final_report, ClosingBlock(AppendixSection))
       /\ Failed("model.invoke", 0)
            => startswith(SummarySection, "Error generating summary: ")
       /\ ~Failed("model.invoke", 0) => SummarySection \in SummaryReplies

\* the knowledge base and every search failed, the summarizer did not
C5_Witness ==
    /\ Finished
    /\ Failed("knowledge base", 0)
    /\ \A i \in 1..Len(search_queries) :
            Failed("search.run", i) /\ Failed("requests.get", i)
    /\ ~Failed("model.invoke", 0)
    /\ AppendixSection # ""

\* C6: a node changes none of the fields it does not own, whether its
\* collaborator call returned or raised (retrieve_metrics owns
\* customer_metrics, retrieve_kb knowledge_base, evaluate_risks
\* risk_evaluations and customer_reports, search_regulations
\* regulatory_updates, generate_report final_report); so a field keeps its
\* value once the node that owns it has run.
C6_OwnedFieldsOnly ==
    [][ /\ pc = "retrieve_metrics" =>
            UNCHANGED <<knowledge_base, risk_evaluations, customer_reports,
                        regulatory_updates, final_report>>
        /\ pc = "retrieve_kb" =>
            UNCHANGED <<customer_metrics, risk_evaluations, customer_reports,
                        regulatory_updates, final_report>>
        /\ pc = "evaluate_risks" =>
            UNCHANGED <<customer_metrics, knowledge_base,
                        regulatory_updates, final_report>>
        /\ pc = "search_regulations" =>
            UNCHANGED <<customer_metrics, knowledge_base, risk_evaluations,
                        customer_reports, final_report>>
        /\ pc = "generate_report" =>
            UNCHANGED <<customer_metrics, knowledge_base, risk_evaluations,
                        customer_reports, regulatory_updates>>
        /\ Ran("retrieve_metrics") => UNCHANGED customer_metrics
        /\ Ran("retrieve_kb") => UNCHANGED knowledge_base
        /\ Ran("evaluate_risks") => UNCHANGED <<risk_evaluations, customer_reports>>
        /\ Ran("search_regulations") => UNCHANGED regulatory_updates
        /\ Ran("generate_report") => UNCHANGED final_report
      ]_vars

\* the run is over, every field was written, and the knowledge-base call
\* had raised after the metrics were stored
C6_Witness ==
    /\ Finished
    /\ Failed("knowledge base", 0)
    /\ customer_metrics # <<>> /\ risk_evaluations # <<>>
    /\ customer_reports # <<>> /\ regulatory_updates # "" /\ final_report # ""

\* C9: the five nodes run once each in the order retrieve_metrics,
\* retrieve_kb, evaluate_risks, search_regulations, generate_report: at any
\* moment the nodes run so far are a prefix of that order and the workflow
\* is at the next one, or at the end when all five have run.
C9_FixedOrder ==
    /\ Len(trace) <= Len(StageOrder)
    /\ trace = SubSeq(StageOrder, 1, Len(trace))
    /\ pc = IF Len(trace) = Len(StageOrder) THEN END
            ELSE StageOrder[Len(trace) + 1]

\* the run is over after the first two nodes' collaborators had raised
C9_Witness ==
    /\ Finished /\ trace = StageOrder
    /\ Failed("metric source", 0) /\ Failed("knowledge base", 0)

\* the texts an entry can hold when search.run raised for its query
Placeholders(query) ==
    { "DuckDuckGo results for '" \o query
        \o "': Found relevant 340B compliance information online.\n"
        \o "Key topics include: program management, diversion prevention, patient eligibility, and regulatory compliance.",
      "DuckDuckGo search for '" \o query
        \o "' completed. Regulatory updates and guidance available online.",
      "Search results for '" \o query \o "' retrieved from regulatory databases.",
      "Regulatory context: Continuous monitoring of compliance metrics is essential for 340B program integrity." }
    \cup {regulatory_suggestions[k][2] : k \in 1..Len(regulatory_suggestions)}

\* the pieces of the regulatory text that follow its "Query: " labels
LabelledEntries == Tail(split(regulatory_updates, "Query: "))

\* what the i-th labelled entry holds after its query line
EntryBody(i) ==
    LET e == LabelledEntries[i]
        q == search_queries[i]
    IN SubSeq(e, Len(q) + 2,
              Len(e) - (IF i < Len(search_queries) THEN 2 ELSE 1))

\* C10: when search_regulations has returned, every query was handed to the
\* search, in the fixed order, whichever of them failed; the regulatory text
\* starts with a label and holds one labelled entry per query in that order;
\* the entry of a query whose search failed holds a placeholder text, that
\* of a query whose search succeeded its results, whatever happened to the
\* other queries.
C10_OneEntryPerQuery ==
    pc = "generate_report" =>
        /\ search_calls = search_queries
        /\ startswith(regulatory_updates, "Query: ")
        /\ Len(LabelledEntries) = Len(search_queries)
        /\ \A i \in 1..Len(search_queries) :
            /\ startswith(LabelledEntries[i], search_queries[i] \o "\n")
            /\ endswith(LabelledEntries[i], "\n")
            /\ IF Failed("search.run", i)
               THEN EntryBody(i) \in Placeholders(search_queries[i])
               ELSE EntryBody(i) \in {ShortResults, LongResults}

\* the first and the last query failed, the second did not
C10_Witness ==
    /\ pc = "generate_report"
    /\ Failed("search.run", 1) /\ ~Failed("search.run", 2)
    /\ Failed("search.run", 3)
    /\ Len(LabelledEntries) = Len(search_queries)

----------------------------------------------------------------------------
(* evaluate_risks called on its own *)

MaxCustomers == 2

AccumValues == {3, 6, 16}
MatchValues == {69, 90}
ReferralValues == {39, 55}

RecordPool ==
    { << <<"negative_accum_count", a>>, <<"match_rate_percent", m>>,
         <<"referral_capture_rate_percent", r>> >> :
        a \in AccumValues, m \in MatchValues, r \in ReferralValues }
    \cup { <<>>,
           << <<"match_rate_percent", 70>> >>,
           << <<"referral_capture_rate_percent", 61>>, <<"negative_accum_count", 5>> >>,
           << <<"negative_accum_count", 3>>, <<"readmission_rate", 12>> >> }

customer_name(i) == "C" \o int_str(i)

EvalInputs ==
    UNION { { [i \in 1..n |-> <<customer_name(i), records[i]>>] :
                records \in [1..n -> RecordPool] } : n \in 0..MaxCustomers }

EvalInit ==
    /\ customer_metrics \in EvalInputs
    /\ knowledge_base = "" /\ risk_evaluations = <<>> /\ customer_reports = <<>>
    /\ regulatory_updates = "" /\ final_report = ""
    /\ no_history /\ no_call
    /\ pc = "evaluate_risks"

EvalNext == evaluate_risks

EvalSpec == EvalInit /\ [][EvalNext]_vars

Evaluated == pc = next_node("evaluate_risks")

ExampleRecord ==
    << <<"negative_accum_count", 3>>, <<"match_rate_percent", 90>>,
       <<"referral_capture_rate_percent", 55>> >>

tally(risks, level) ==
    Cardinality({k \in 1..Len(risks) : risks[k].risk_level = level})

\* C7: when evaluate_risks has returned there is exactly one report per
\* customer of the mapping, in the mapping's order, and in each of them
\* risks has one evaluation per metric of the customer, each count is the
\* number of evaluations of risks with that level, and the three counts add
\* up to the number of metrics; the metrics 3 / 90 / 55 give low 2,
\* medium 1, high 0.
C7_ReportCounts ==
    Evaluated =>
        /\ Len(customer_reports) = Len(customer_metrics)
        /\ \A i \in 1..Len(customer_metrics) :
            LET r == customer_reports[i]
                m == customer_metrics[i][2]
            IN /\ r.customer_id = customer_metrics[i][1]
               /\ Len(r.risks) = Len(m)
               /\ \A k \in 1..Len(m) :
                    /\ r.risks[k].customer_id = r.customer_id
                    /\ r.risks[k].value = m[k][2]
               /\ r.high_risk_count = tally(r.risks, "High Risk")
               /\ r.medium_risk_count = tally(r.risks, "Medium Risk")
               /\ r.low_risk_count = tally(r.risks, "Low Risk")
               /\ r.high_risk_count + r.medium_risk_count + r.low_risk_count = Len(m)
               /\ m = ExampleRecord =>
                    /\ r.low_risk_count = 2
                    /\ r.medium_risk_count = 1
                    /\ r.high_risk_count = 0

\* two customers were evaluated, the second with the metrics 3 / 90 / 55
C7_Witness ==
    /\ Evaluated
    /\ Len(customer_reports) = 2
    /\ customer_metrics[2][2] = ExampleRecord
    /\ customer_reports[2].low_risk_count = 2
    /\ customer_reports[1].high_risk_count > 0

----------------------------------------------------------------------------
(* evaluate_risk_level called on its own *)

MaxValue == 100
BelowZero == 2

Values == (0 - BelowZero)..MaxValue

KnownMetrics ==
    {"negative_accum_count", "match_rate_percent", "referral_capture_rate_percent"}

MetricNames == KnownMetrics \cup {"readmission_rate", "Match_Rate_Percent", ""}

ClassifyInit ==
    /\ initial_state /\ no_history
    /\ pc = "call evaluate_risk_level"
    /\ metric_name \in MetricNames
    /\ value \in Values
    /\ csv_lines = <<>> /\ csv_content = "" /\ returned = <<>>

Classify ==
    /\ pc = "call evaluate_risk_level"
    /\ returned' = evaluate_risk_level(metric_name, value)
    /\ pc' = "return evaluate_risk_level"
    /\ UNCHANGED <<state, history, metric_name, value, csv_lines, csv_content>>

ClassifyNext == Classify

ClassifySpec == ClassifyInit /\ [][ClassifyNext]_vars

Classified == pc = "return evaluate_risk_level"

\* C1 (as claimed): referral_capture_rate_percent is Low with range ">60"
\* above 60, Medium with range "40-60" from 40 to 60 inclusive, and High
\* with range "<40" below 40; so 40 is Medium, 39 High and 61 Low.
C1_ReferralTiers ==
    (Classified /\ metric_name = "referral_capture_rate_percent") =>
        returned = IF value > 60 THEN <<"Low Risk", ">60">>
                   ELSE IF value >= 40 THEN <<"Medium Risk", "40-60">>
                   ELSE <<"High Risk", "<40">>

\* the boundary value 40 has been classified, and the answer is the High tier
C1_Witness ==
    /\ Classified /\ metric_name = "referral_capture_rate_percent" /\ value = 40
    /\ returned = <<"High Risk", "<40">>

\* C2 (as claimed): a metric name that is none of the three known ones is
\* answered with the pair ("Unknown", "Unknown"), and nothing is raised.
C2_UnknownMetricSentinel ==
    (Classified /\ metric_name \notin KnownMetrics) =>
        returned = <<"Unknown", "Unknown">>

\* a name outside the table has been looked up: thresholds[metric_name] raised
C2_Witness ==
    /\ Classified /\ metric_name = "readmission_rate"
    /\ returned = KeyError

\* C3: negative_accum_count is Low "0-5" up to 5, Medium "6-15" above 5 up
\* to 15, High ">15" above 15; match_rate_percent is High "<70" below 70,
\* Medium "70-85" from 70 to 85, Low ">85" above 85.  The boundary values
\* 5, 15, 70 and 85 fall in the lower-severity tier.
C3_AccumAndMatchTiers ==
    /\ (Classified /\ metric_name = "negative_accum_count") =>
        returned = IF value <= 5 THEN <<"Low Risk", "0-5">>
                   ELSE IF value <= 15 THEN <<"Medium Risk", "6-15">>
                   ELSE <<"High Risk", ">15">>
    /\ (Classified /\ metric_name = "match_rate_percent") =>
        returned = IF value < 70 THEN <<"High Risk", "<70">>
                   ELSE IF value <= 85 THEN <<"Medium Risk", "70-85">>
                   ELSE <<"Low Risk", ">85">>
    /\ (Classified /\ metric_name = "negative_accum_count" /\ value \in {5, 15})
        => returned[1] = (IF value = 5 THEN "Low Risk" ELSE "Medium Risk")
    /\ (Classified /\ metric_name = "match_rate_percent" /\ value \in {70, 85})
        => returned[1] = "Medium Risk"

\* a boundary value of match_rate_percent has been classified
C3_Witness ==
    /\ Classified /\ metric_name = "match_rate_percent" /\ value = 85
    /\ returned = <<"Medium Risk", "70-85">>

----------------------------------------------------------------------------
(* parse_csv_metrics called on its own *)

MaxLines == 2

LinePool ==
    { "C1,3,90,55",
      "C2,20,60,30",
      "C1,6,70,40",
      "customer_id,negative_accum_count,match_rate_percent,referral_capture_rate_percent",
      "customer_id_7,1,2,3",
      "C3,7,x,5",
      "C4,1,2",
      "",
      " C5 , 16 , 86 , 61 ",
      "C8,1,2,5",
      "C9,1,2,5",
      "C6,1,2,3,4",
      "C7,-1,+85,1_0" }

LineSeqs == UNION {[1..n -> LinePool] : n \in 0..MaxLines}

Wrappings == {"plain", "csv fence", "bare fence", "prose and csv fence"}

\* the reply of the metric source that carries the lines
wrapped(kind, lines) ==
    LET body == join("\n", lines) IN
    IF kind = "csv fence" THEN CsvFence \o "\n" \o body \o "\n" \o Fence
    ELSE IF kind = "bare fence" THEN Fence \o "\n" \o body \o "\n" \o Fence
    ELSE IF kind = "prose and csv fence"
    THEN "Here are the metrics:\n" \o CsvFence \o "\n" \o body \o "\n" \o Fence
            \o "\nLet me know if you need more."
    ELSE body

ParseInit ==
    /\ initial_state /\ no_history
    /\ pc = "call parse_csv_metrics"
    /\ metric_name = "" /\ value = 0 /\ returned = <<>>
    /\ csv_lines \in LineSeqs
    /\ \E kind \in Wrappings : csv_content = wrapped(kind, csv_lines)

Parse ==
    /\ pc = "call parse_csv_metrics"
    /\ returned' = parse_csv_metrics(csv_content)
    /\ pc' = "return parse_csv_metrics"
    /\ UNCHANGED <<state, history, metric_name, value, csv_lines, csv_content>>

ParseNext == Parse

ParseSpec == ParseInit /\ [][ParseNext]_vars

Parsed == pc = "return parse_csv_metrics"

fields(line) == split(strip(line), ",")

\* a customer identifier that is not the header token, then three integers
WellFormedLine(line) ==
    /\ Len(fields(line)) = 4
    /\ strip(fields(line)[1]) # "customer_id"
    /\ \A k \in 2..4 : ~int_raises(strip(fields(line)[k]))

\* fewer than 4 fields, or a numeric field that is no integer
MalformedLine(line) ==
    \/ Len(fields(line)) < 4
    \/ \E k \in 2..4 : int_raises(strip(fields(line)[k]))

line_customer(line) == strip(fields(line)[1])

line_tuple(line) ==
    << <<"negative_accum_count", int(strip(fields(line)[2]))>>,
       <<"match_rate_percent", int(strip(fields(line)[3]))>>,
       <<"referral_capture_rate_percent", int(strip(fields(line)[4]))>> >>

RECURSIVE without_malformed(_)
\* the lines that are left when the malformed ones are taken out
without_malformed(lines) ==
    IF Len(lines) = 0 THEN <<>>
    ELSE IF MalformedLine(lines[1]) THEN without_malformed(Tail(lines))
    ELSE <<lines[1]>> \o without_malformed(Tail(lines))

\* C8 (as claimed): every well-formed line is recovered in the mapping as
\* exactly its (customer_id, three integers) tuple (of several well-formed
\* lines of one customer the mapping can hold only one: the last), and the
\* lines with fewer than 4 fields or a non-integer field contribute nothing
\* and leave the contribution of the other lines as it is without them.
C8_ParseRecoversLines ==
    Parsed =>
        /\ \A i \in 1..Len(csv_lines) :
            ( /\ WellFormedLine(csv_lines[i])
              /\ \A j \in (i + 1)..Len(csv_lines) :
                    ~( /\ WellFormedLine(csv_lines[j])
                       /\ line_customer(csv_lines[j]) = line_customer(csv_lines[i])) )
            => /\ has_key(returned, line_customer(csv_lines[i]))
               /\ get(returned, line_customer(csv_lines[i])) = line_tuple(csv_lines[i])
        /\ returned = parse_csv_metrics(
                join("\n", without_malformed(csv_lines)))

\* a well-formed line whose customer identifier starts with the header token
\* has been parsed, and the mapping is empty
C8_Witness ==
    /\ Parsed
    /\ csv_lines = <<"customer_id_7,1,2,3">>
    /\ WellFormedLine(csv_lines[1])
    /\ returned = <<>>

\* the second half of C8 alone: the malformed lines change nothing
C8_MalformedLinesInert ==
    Parsed =>
        returned = parse_csv_metrics(
            join("\n", without_malformed(csv_lines)))

====
